---- MODULE Spec2Model ----
(***************************************************************************)
(* Model of modules/planning/common/change_lane_decider.cc: the lane-change *)
(* state machine ChangeLaneDecider::Apply over the persisted               *)
(* ChangeLaneStatus and the list of ReferenceLineInfo candidates.          *)
(*                                                                         *)
(* Time is counted in integer clock ticks.  A candidate (a node of the     *)
(* std::list) is a record [n, id, change]: n is the identity of the list   *)
(* node (its position in the list as offered), id is Lanes().Id() and      *)
(* change is IsChangeLanePath().                                           *)
(*                                                                         *)
(* The second half models ChangeLaneDecider::IsClearToChangeLane and       *)
(* HysteresisFilter.  Lengths are counted in half metres (0.5 m = 1),      *)
(* speeds in m/s, angles in eighths of a turn (pi = 4).                    *)
(***************************************************************************)
EXTENDS Integers, Sequences, FiniteSets, TLC

\* ---------------------------------------------------------------- bounds
MaxLen == 3
MaxTime == 3
MaxFreeze == 2

\* Lane ids of the candidates (non-empty strings); "" is the empty string.
LaneIds == {"a", "b"}
EmptyId == ""

\* ChangeLaneStatus::Status, plus has_status() = false
UNSET == "UNSET"
CHANGE_LANE_SUCCESS == "CHANGE_LANE_SUCCESS"
IN_CHANGE_LANE == "IN_CHANGE_LANE"
CHANGE_LANE_FAILED == "CHANGE_LANE_FAILED"

VARIABLES
  status,                        \* the persisted ChangeLaneStatus
  now,                           \* Clock::NowInSeconds()
  reference_line_info,           \* the candidate list, mutated in place
  offered,                       \* the list as handed to Apply
  status_before,                 \* the persisted status when Apply was entered
  FLAGS_reckless_change_lane,
  FLAGS_change_lane_fail_freeze_time,
  FLAGS_change_lane_success_freeze_time,
  ret,                           \* the value Apply returned
  pc                             \* "idle", "offered", "done"

VARIABLES
  ego,                           \* the candidate IsClearToChangeLane is called on
  obstacles,                     \* path_decision()->obstacles().Items(), in scan order
  calls,                         \* the calls of IsClearToChangeLane on this scene
  filter                         \* one pair of calls of HysteresisFilter

applyVars == <<status, now, reference_line_info, offered, status_before,
               FLAGS_reckless_change_lane, FLAGS_change_lane_fail_freeze_time,
               FLAGS_change_lane_success_freeze_time, ret, pc>>
clearVars == <<ego, obstacles, calls, filter>>
vars == <<applyVars, clearVars>>

\* ------------------------------------------------------------ candidates
Candidate(n, id, change) == [n |-> n, id |-> id, change |-> change]

IsChangeLanePath(info) == info.change

\* All lists of at most MaxLen candidates, node k carrying identity k.
Shapes(len) == [1..len -> LaneIds \X BOOLEAN]
ListOf(f, len) == [k \in 1..len |-> Candidate(k, f[k][1], f[k][2])]
CandidateLists == UNION {{ListOf(f, len) : f \in Shapes(len)} : len \in 0..MaxLen}

\* --------------------------------------------------------------- status
\* UpdateStatus(timestamp, status_code, path_id)
UpdateStatus(timestamp, status_code, path_id) ==
  [status |-> status_code, path_id |-> path_id, timestamp |-> timestamp]

UnsetStatus == [status |-> UNSET, path_id |-> EmptyId, timestamp |-> 0]

\* ------------------------------------------------------- list operations
\* Index of the first lane-change candidate, 0 when there is none.
FirstChangeLane(refs) ==
  IF \E i \in 1..Len(refs) : IsChangeLanePath(refs[i])
  THEN CHOOSE i \in 1..Len(refs) :
         /\ IsChangeLanePath(refs[i])
         /\ \A j \in 1..(i-1) : ~IsChangeLanePath(refs[j])
  ELSE 0

\* Variant: the node is copied to the front and not unlinked.
Splice_Copy(refs, i) == <<refs[i]>> \o refs

\* splice(begin, list, iter): the node at position i is moved to the front.
Splice(refs, i) ==
  <<refs[i]>> \o SubSeq(refs, 1, i-1) \o SubSeq(refs, i+1, Len(refs))

\* Variant: the lane-change node is exchanged with the front node.
PrioritizeChangeLane_Swap(refs) ==
  IF Len(refs) = 0 THEN refs
  ELSE LET i == FirstChangeLane(refs)
       IN IF i = 0 THEN refs
          ELSE [k \in 1..Len(refs) |->
                  IF k = 1 THEN refs[i] ELSE IF k = i THEN refs[1] ELSE refs[k]]

PrioritizeChangeLane(refs) ==
  IF Len(refs) = 0 THEN refs
  ELSE LET i == FirstChangeLane(refs)
       IN IF i = 0 THEN refs ELSE Splice(refs, i)

\* Variant: everything from the first lane-change node on is erased.
RemoveChangeLane_Truncate(refs) ==
  LET i == FirstChangeLane(refs)
  IN IF i = 0 THEN refs ELSE SubSeq(refs, 1, i-1)

\* Variant: the loop stops after erasing the first lane-change node.
RemoveChangeLane_FirstOnly(refs) ==
  LET i == FirstChangeLane(refs)
  IN IF i = 0 THEN refs
     ELSE SubSeq(refs, 1, i-1) \o SubSeq(refs, i+1, Len(refs))

RECURSIVE RemoveChangeLane(_)
RemoveChangeLane(refs) ==
  IF Len(refs) = 0 THEN <<>>
  ELSE IF IsChangeLanePath(Head(refs)) THEN RemoveChangeLane(Tail(refs))
  ELSE <<Head(refs)>> \o RemoveChangeLane(Tail(refs))

\* Variant: the id of the front candidate, lane change or not.
GetCurrentPathId_Front(refs) ==
  IF Len(refs) = 0 THEN EmptyId ELSE Head(refs).id

RECURSIVE GetCurrentPathId(_)
GetCurrentPathId(refs) ==
  IF Len(refs) = 0 THEN EmptyId
  ELSE IF ~IsChangeLanePath(Head(refs)) THEN Head(refs).id
  ELSE GetCurrentPathId(Tail(refs))

\* ---------------------------------------------------------------- Apply
Result(r, refs, st) == [ret |-> r, refs |-> refs, status |-> st]

\* !prev_status->has_status()
ApplyUnset(refs, prev, t) ==
  Result(TRUE, refs, UpdateStatus(t, CHANGE_LANE_SUCCESS, GetCurrentPathId(refs)))

\* Variant: IN_CHANGE_LANE is kept when a single candidate is offered.
ApplySingle_KeepsInChangeLane(refs, prev, t) ==
  IF prev.status \in {CHANGE_LANE_SUCCESS, IN_CHANGE_LANE, CHANGE_LANE_FAILED}
  THEN Result(TRUE, refs, prev)
  ELSE Result(FALSE, refs, prev)

\* !has_change_lane: exactly one candidate
ApplySingle(refs, prev, t) ==
  LET path_id == Head(refs).id IN
  IF prev.status = CHANGE_LANE_SUCCESS THEN Result(TRUE, refs, prev)
  ELSE IF prev.status = IN_CHANGE_LANE
    THEN Result(TRUE, refs, UpdateStatus(t, CHANGE_LANE_SUCCESS, path_id))
  ELSE IF prev.status = CHANGE_LANE_FAILED THEN Result(TRUE, refs, prev)
  ELSE Result(FALSE, refs, prev)

\* Variant: the path id comparison is inverted.
ApplyInChangeLane_Inverted(refs, prev, t, current_path_id) ==
  IF prev.path_id # current_path_id
  THEN Result(TRUE, PrioritizeChangeLane(refs), prev)
  ELSE Result(TRUE, RemoveChangeLane(refs),
              UpdateStatus(t, CHANGE_LANE_SUCCESS, current_path_id))

\* prev_status->status() == IN_CHANGE_LANE, several candidates
ApplyInChangeLane(refs, prev, t, current_path_id) ==
  IF prev.path_id = current_path_id
  THEN Result(TRUE, PrioritizeChangeLane(refs), prev)
  ELSE Result(TRUE, RemoveChangeLane(refs),
              UpdateStatus(t, CHANGE_LANE_SUCCESS, current_path_id))

\* Variant: the clock is compared with the freeze time without subtracting
\* the persisted timestamp.
ApplyFailed_AbsoluteTime(refs, prev, t, current_path_id, fail_freeze_time) ==
  IF t < fail_freeze_time
  THEN Result(TRUE, RemoveChangeLane(refs), prev)
  ELSE Result(TRUE, refs, UpdateStatus(t, IN_CHANGE_LANE, current_path_id))

\* Variant: the retry after the cooldown also prioritizes the lane change.
ApplyFailed_Prioritizes(refs, prev, t, current_path_id, fail_freeze_time) ==
  IF t - prev.timestamp < fail_freeze_time
  THEN Result(TRUE, RemoveChangeLane(refs), prev)
  ELSE Result(TRUE, PrioritizeChangeLane(refs),
              UpdateStatus(t, IN_CHANGE_LANE, current_path_id))

\* prev_status->status() == CHANGE_LANE_FAILED, several candidates
ApplyFailed(refs, prev, t, current_path_id, fail_freeze_time) ==
  IF t - prev.timestamp < fail_freeze_time
  THEN Result(TRUE, RemoveChangeLane(refs), prev)
  ELSE Result(TRUE, refs, UpdateStatus(t, IN_CHANGE_LANE, current_path_id))

\* Variant: the freeze comparison is <= instead of <.
ApplySuccess_InclusiveFreeze(refs, prev, t, current_path_id, success_freeze_time) ==
  IF t - prev.timestamp <= success_freeze_time
  THEN Result(TRUE, RemoveChangeLane(refs), prev)
  ELSE Result(TRUE, PrioritizeChangeLane(refs),
              UpdateStatus(t, IN_CHANGE_LANE, current_path_id))

\* prev_status->status() == CHANGE_LANE_SUCCESS, several candidates
ApplySuccess(refs, prev, t, current_path_id, success_freeze_time) ==
  IF t - prev.timestamp < success_freeze_time
  THEN Result(TRUE, RemoveChangeLane(refs), prev)
  ELSE Result(TRUE, PrioritizeChangeLane(refs),
              UpdateStatus(t, IN_CHANGE_LANE, current_path_id))

\* Variant: the lane-change candidates are erased before the current path id
\* is checked.
ApplyMultiple_RemovesOnFail(refs, prev, t, fail_freeze_time, success_freeze_time) ==
  LET current_path_id == GetCurrentPathId(refs) IN
  IF current_path_id = EmptyId THEN Result(FALSE, RemoveChangeLane(refs), prev)
  ELSE IF prev.status = IN_CHANGE_LANE
    THEN ApplyInChangeLane(refs, prev, t, current_path_id)
  ELSE IF prev.status = CHANGE_LANE_FAILED
    THEN ApplyFailed(refs, prev, t, current_path_id, fail_freeze_time)
  ELSE IF prev.status = CHANGE_LANE_SUCCESS
    THEN ApplySuccess(refs, prev, t, current_path_id, success_freeze_time)
  ELSE Result(FALSE, refs, prev)

\* Variant: the empty current path id is not rejected.
ApplyMultiple_NoCheck(refs, prev, t, fail_freeze_time, success_freeze_time) ==
  LET current_path_id == GetCurrentPathId(refs) IN
  IF prev.status = IN_CHANGE_LANE
    THEN ApplyInChangeLane(refs, prev, t, current_path_id)
  ELSE IF prev.status = CHANGE_LANE_FAILED
    THEN ApplyFailed(refs, prev, t, current_path_id, fail_freeze_time)
  ELSE IF prev.status = CHANGE_LANE_SUCCESS
    THEN ApplySuccess(refs, prev, t, current_path_id, success_freeze_time)
  ELSE Result(FALSE, refs, prev)

\* has change lane in reference lines: more than one candidate
ApplyMultiple(refs, prev, t, fail_freeze_time, success_freeze_time) ==
  LET current_path_id == GetCurrentPathId(refs) IN
  IF current_path_id = EmptyId THEN Result(FALSE, refs, prev)
  ELSE IF prev.status = IN_CHANGE_LANE
    THEN ApplyInChangeLane(refs, prev, t, current_path_id)
  ELSE IF prev.status = CHANGE_LANE_FAILED
    THEN ApplyFailed(refs, prev, t, current_path_id, fail_freeze_time)
  ELSE IF prev.status = CHANGE_LANE_SUCCESS
    THEN ApplySuccess(refs, prev, t, current_path_id, success_freeze_time)
  ELSE Result(FALSE, refs, prev)

\* Variant: the bootstrap branch for a status that was never set is missing.
ApplyResult_NoBootstrap(refs, prev, t, reckless, fail_freeze_time, success_freeze_time) ==
  IF Len(refs) = 0 THEN Result(FALSE, refs, prev)
  ELSE IF reckless THEN Result(TRUE, PrioritizeChangeLane(refs), prev)
  ELSE IF ~(Len(refs) > 1) THEN ApplySingle(refs, prev, t)
  ELSE ApplyMultiple(refs, prev, t, fail_freeze_time, success_freeze_time)

\* Variant: the empty list is rejected only after the reckless and the
\* bootstrap branches.
ApplyResult_EmptyLast(refs, prev, t, reckless, fail_freeze_time, success_freeze_time) ==
  IF reckless THEN Result(TRUE, PrioritizeChangeLane(refs), prev)
  ELSE IF prev.status = UNSET THEN ApplyUnset(refs, prev, t)
  ELSE IF Len(refs) = 0 THEN Result(FALSE, refs, prev)
  ELSE IF ~(Len(refs) > 1) THEN ApplySingle(refs, prev, t)
  ELSE ApplyMultiple(refs, prev, t, fail_freeze_time, success_freeze_time)

\* bool ChangeLaneDecider::Apply(std::list<ReferenceLineInfo>*)
ApplyResult(refs, prev, t, reckless, fail_freeze_time, success_freeze_time) ==
  IF Len(refs) = 0 THEN Result(FALSE, refs, prev)
  ELSE IF reckless THEN Result(TRUE, PrioritizeChangeLane(refs), prev)
  ELSE IF prev.status = UNSET THEN ApplyUnset(refs, prev, t)
  ELSE IF ~(Len(refs) > 1) THEN ApplySingle(refs, prev, t)
  ELSE ApplyMultiple(refs, prev, t, fail_freeze_time, success_freeze_time)

\* --------------------------------------------------- IsClearToChangeLane
\* Lengths are in half metres, so that kDistanceBuffer (0.5 m) is 1.
HalfMetres(m) == 2 * m
kLateralShift == 5
kSafeTimeOnSameDirection == 3
kSafeTimeOnOppositeDirection == 5
kForwardMinSafeDistanceOnSameDirection == HalfMetres(6)
kBackwardMinSafeDistanceOnSameDirection == HalfMetres(8)
kForwardMinSafeDistanceOnOppositeDirection == HalfMetres(50)
kBackwardMinSafeDistanceOnOppositeDirection == HalfMetres(1)
kDistanceBuffer == 1
\* M_PI, in eighths of a turn
M_PI == 4
\* std::numeric_limits<double>::max()
DBL_MAX == 1000000

Abs(x) == IF x < 0 THEN -x ELSE x
fmin(x, y) == IF x < y THEN x ELSE y
fmax(x, y) == IF x > y THEN x ELSE y

\* common::math::NormalizeAngle: the angle brought into [-pi, pi)
NormalizeAngle(angle) == ((angle + M_PI) % (2 * M_PI)) - M_PI

\* Variant: the two thresholds are exchanged.
HysteresisFilter_Swapped(obstacle_distance, safe_distance, distance_buffer, is_obstacle_blocking) ==
  IF is_obstacle_blocking
  THEN obstacle_distance < safe_distance - distance_buffer
  ELSE obstacle_distance < safe_distance + distance_buffer

\* bool ChangeLaneDecider::HysteresisFilter(...)
HysteresisFilter(obstacle_distance, safe_distance, distance_buffer, is_obstacle_blocking) ==
  IF is_obstacle_blocking
  THEN obstacle_distance < safe_distance + distance_buffer
  ELSE obstacle_distance < safe_distance - distance_buffer

\* An obstacle: [id, virtual, static, points, speed, has_trajectory, theta,
\* blocking]; points are the polygon vertices as XYToSL projects them,
\* blocking is IsLaneChangeBlocking().
\* The candidate: [start_s, end_s, linear_velocity, heading, reverse, change].
SLBox(start_s, end_s, start_l, end_l) ==
  [start_s |-> start_s, end_s |-> end_s, start_l |-> start_l, end_l |-> end_l]

\* The loop over PerceptionPolygon().points()
RECURSIVE SLBoundary(_, _)
SLBoundary(points, box) ==
  IF Len(points) = 0 THEN box
  ELSE LET sl_point == Head(points)
       IN SLBoundary(Tail(points),
                     SLBox(fmin(box.start_s, sl_point.s),
                           fmax(box.end_s, sl_point.s),
                           fmin(box.start_l, sl_point.l),
                           fmax(box.end_l, sl_point.l)))

ObstacleSLBoundary(obstacle) ==
  SLBoundary(obstacle.points, SLBox(DBL_MAX, -DBL_MAX, DBL_MAX, -DBL_MAX))

\* The two continue statements of the scan.
IsSkipped(info, obstacle) ==
  IF obstacle.virtual \/ obstacle.static THEN TRUE
  ELSE LET box == ObstacleSLBoundary(obstacle)
       IN /\ info.change
          /\ (box.end_l < -kLateralShift \/ box.start_l > kLateralShift)

\* Raw estimation on whether same direction with ADC or not
SameDirection(info, obstacle) ==
  IF obstacle.has_trajectory
  THEN LET obstacle_moving_direction == obstacle.theta
           vehicle_moving_direction ==
             IF info.reverse THEN NormalizeAngle(info.heading + M_PI)
             ELSE info.heading
           heading_difference ==
             Abs(NormalizeAngle(obstacle_moving_direction
                                  - vehicle_moving_direction))
       IN 2 * heading_difference < M_PI
  ELSE TRUE

\* Variant: the speed difference ahead is taken with the wrong sign.
ForwardSafeDistance_Reversed(ego_v, speed, same_direction) ==
  IF same_direction
  THEN fmax(kForwardMinSafeDistanceOnSameDirection,
            HalfMetres((speed - ego_v) * kSafeTimeOnSameDirection))
  ELSE fmax(kForwardMinSafeDistanceOnOppositeDirection,
            HalfMetres((ego_v + speed) * kSafeTimeOnOppositeDirection))

ForwardSafeDistance(ego_v, speed, same_direction) ==
  IF same_direction
  THEN fmax(kForwardMinSafeDistanceOnSameDirection,
            HalfMetres((ego_v - speed) * kSafeTimeOnSameDirection))
  ELSE fmax(kForwardMinSafeDistanceOnOppositeDirection,
            HalfMetres((ego_v + speed) * kSafeTimeOnOppositeDirection))

BackwardSafeDistance(ego_v, speed, same_direction) ==
  IF same_direction
  THEN fmax(kBackwardMinSafeDistanceOnSameDirection,
            HalfMetres((speed - ego_v) * kSafeTimeOnSameDirection))
  ELSE kBackwardMinSafeDistanceOnOppositeDirection

\* The condition under which the obstacle is marked as blocking.
IsBlocking(info, obstacle) ==
  LET ego_v == Abs(info.linear_velocity)
      box == ObstacleSLBoundary(obstacle)
      same_direction == SameDirection(info, obstacle)
      kForwardSafeDistance ==
        ForwardSafeDistance(ego_v, obstacle.speed, same_direction)
      kBackwardSafeDistance ==
        BackwardSafeDistance(ego_v, obstacle.speed, same_direction)
  IN /\ HysteresisFilter(info.start_s - box.end_s, kBackwardSafeDistance,
                         kDistanceBuffer, obstacle.blocking)
     /\ HysteresisFilter(box.start_s - info.end_s, kForwardSafeDistance,
                         kDistanceBuffer, obstacle.blocking)

\* path_decision()->Find(id)->SetLaneChangeBlocking(flag)
Find(obs, id) == CHOOSE i \in 1..Len(obs) : obs[i].id = id
SetLaneChangeBlocking(obs, id, flag) ==
  [obs EXCEPT ![Find(obs, id)].blocking = flag]

\* Variant: an obstacle that does not block keeps its flag.
RECURSIVE Scan_NoReset(_, _, _)
Scan_NoReset(info, obs, i) ==
  IF i > Len(obs) THEN [ret |-> TRUE, obstacles |-> obs]
  ELSE IF IsSkipped(info, obs[i]) THEN Scan_NoReset(info, obs, i + 1)
  ELSE IF IsBlocking(info, obs[i])
    THEN [ret |-> FALSE,
          obstacles |-> SetLaneChangeBlocking(obs, obs[i].id, TRUE)]
  ELSE Scan_NoReset(info, obs, i + 1)

\* Variant: the flag of a skipped obstacle is cleared.
RECURSIVE Scan_ClearsSkipped(_, _, _)
Scan_ClearsSkipped(info, obs, i) ==
  IF i > Len(obs) THEN [ret |-> TRUE, obstacles |-> obs]
  ELSE IF IsSkipped(info, obs[i])
    THEN Scan_ClearsSkipped(info, SetLaneChangeBlocking(obs, obs[i].id, FALSE),
                            i + 1)
  ELSE IF IsBlocking(info, obs[i])
    THEN [ret |-> FALSE,
          obstacles |-> SetLaneChangeBlocking(obs, obs[i].id, TRUE)]
  ELSE Scan_ClearsSkipped(info, SetLaneChangeBlocking(obs, obs[i].id, FALSE),
                          i + 1)

\* The scan of the obstacles from position i on.
RECURSIVE Scan(_, _, _)
Scan(info, obs, i) ==
  IF i > Len(obs) THEN [ret |-> TRUE, obstacles |-> obs]
  ELSE IF IsSkipped(info, obs[i]) THEN Scan(info, obs, i + 1)
  ELSE IF IsBlocking(info, obs[i])
    THEN [ret |-> FALSE,
          obstacles |-> SetLaneChangeBlocking(obs, obs[i].id, TRUE)]
  ELSE Scan(info, SetLaneChangeBlocking(obs, obs[i].id, FALSE), i + 1)

\* bool ChangeLaneDecider::IsClearToChangeLane(ReferenceLineInfo*)
IsClearToChangeLane(info, obs) == Scan(info, obs, 1)

\* No candidate is under evaluation.
NoEgo == [start_s |-> 0, end_s |-> 0, linear_velocity |-> 0, heading |-> 0,
          reverse |-> FALSE, change |-> FALSE]
NoFilter == [gap |-> 0, safe |-> 0, buffer |-> 0, called |-> FALSE,
             blocking |-> FALSE, clear |-> FALSE]
NoScene ==
  /\ ego = NoEgo
  /\ obstacles = <<>>
  /\ calls = <<>>
  /\ filter = NoFilter

\* ------------------------------------------------------------------ Init
Init ==
  /\ status = UnsetStatus
  /\ now = 0
  /\ reference_line_info = <<>>
  /\ offered = <<>>
  /\ status_before = UnsetStatus
  /\ FLAGS_reckless_change_lane = FALSE
  /\ FLAGS_change_lane_fail_freeze_time \in 1..MaxFreeze
  /\ FLAGS_change_lane_success_freeze_time \in 1..MaxFreeze
  /\ ret = FALSE
  /\ pc = "idle"
  /\ NoScene

\* --------------------------------------------------------------- actions
\* The planning loop builds this cycle's candidate list.
Offer(refs) ==
  /\ pc = "idle"
  /\ pc' = "offered"
  /\ reference_line_info' = refs
  /\ offered' = refs
  /\ UNCHANGED <<status, now, status_before, FLAGS_reckless_change_lane,
                 FLAGS_change_lane_fail_freeze_time,
                 FLAGS_change_lane_success_freeze_time, ret>>
  /\ UNCHANGED clearVars

\* One call of ChangeLaneDecider::Apply, with the flag as set at the call.
Apply(reckless) ==
  /\ pc = "offered"
  /\ LET r == ApplyResult(reference_line_info, status, now, reckless,
                          FLAGS_change_lane_fail_freeze_time,
                          FLAGS_change_lane_success_freeze_time)
     IN /\ reference_line_info' = r.refs
        /\ status' = r.status
        /\ ret' = r.ret
  /\ status_before' = status
  /\ FLAGS_reckless_change_lane' = reckless
  /\ pc' = "done"
  /\ UNCHANGED <<now, offered, FLAGS_change_lane_fail_freeze_time,
                 FLAGS_change_lane_success_freeze_time>>
  /\ UNCHANGED clearVars

\* The cycle ends: the candidate list is consumed downstream.
EndCycle ==
  /\ pc = "done"
  /\ pc' = "idle"
  /\ reference_line_info' = <<>>
  /\ offered' = <<>>
  /\ status_before' = status
  /\ ret' = FALSE
  /\ FLAGS_reckless_change_lane' = FALSE
  /\ UNCHANGED <<status, now, FLAGS_change_lane_fail_freeze_time,
                 FLAGS_change_lane_success_freeze_time>>
  /\ UNCHANGED clearVars

\* The clock advances between cycles.
Tick ==
  /\ pc = "idle"
  /\ now < MaxTime
  /\ now' = now + 1
  /\ UNCHANGED <<status, reference_line_info, offered, status_before,
                 FLAGS_reckless_change_lane, FLAGS_change_lane_fail_freeze_time,
                 FLAGS_change_lane_success_freeze_time, ret, pc>>
  /\ UNCHANGED clearVars

\* UpdateStatus(status_code, path_id) called by the planner between cycles
\* to report that the lane change failed.
ReportFailed(path_id) ==
  /\ pc = "idle"
  /\ status' = UpdateStatus(now, CHANGE_LANE_FAILED, path_id)
  /\ status_before' = status'
  /\ UNCHANGED <<now, reference_line_info, offered,
                 FLAGS_reckless_change_lane, FLAGS_change_lane_fail_freeze_time,
                 FLAGS_change_lane_success_freeze_time, ret, pc>>
  /\ UNCHANGED clearVars

Next ==
  \/ \E refs \in CandidateLists : Offer(refs)
  \/ \E reckless \in BOOLEAN : Apply(reckless)
  \/ EndCycle
  \/ Tick
  \/ \E path_id \in LaneIds : ReportFailed(path_id)

Spec == Init /\ [][Next]_vars

\* ------------------------------------------- steady offer of a lane change
\* Every cycle offers [a (current lane), b (lane change)], Apply runs in
\* non-reckless mode, the clock advances by a positive step between calls
\* and nothing else writes the status.
MaxStep == 2
SteadyHorizon == MaxTime + MaxFreeze + 3 * MaxStep
SteadyOffered == <<Candidate(1, "a", FALSE), Candidate(2, "b", TRUE)>>

\* Any status persisted by earlier cycles.
InitSteady ==
  /\ now \in 0..MaxTime
  /\ status \in {UnsetStatus} \cup
       {UpdateStatus(t, c, id) :
          t \in 0..now,
          c \in {CHANGE_LANE_SUCCESS, IN_CHANGE_LANE, CHANGE_LANE_FAILED},
          id \in LaneIds}
  /\ status_before = status
  /\ reference_line_info = <<>>
  /\ offered = <<>>
  /\ FLAGS_reckless_change_lane = FALSE
  /\ FLAGS_change_lane_fail_freeze_time \in 1..MaxFreeze
  /\ FLAGS_change_lane_success_freeze_time \in 1..MaxFreeze
  /\ ret = FALSE
  /\ pc = "idle"
  /\ NoScene

\* The cycle ends and the clock advances by d before the next call.
SteadyAdvance(d) ==
  /\ pc = "done"
  /\ now + d <= SteadyHorizon
  /\ now' = now + d
  /\ pc' = "idle"
  /\ reference_line_info' = <<>>
  /\ offered' = <<>>
  /\ status_before' = status
  /\ ret' = FALSE
  /\ UNCHANGED <<status, FLAGS_reckless_change_lane,
                 FLAGS_change_lane_fail_freeze_time,
                 FLAGS_change_lane_success_freeze_time>>
  /\ UNCHANGED clearVars

NextSteady ==
  \/ Offer(SteadyOffered)
  \/ Apply(FALSE)
  \/ \E d \in 1..MaxStep : SteadyAdvance(d)

SpecSteady == InitSteady /\ [][NextSteady]_vars /\ WF_vars(NextSteady)

\* ------------------------------------------------------ HysteresisFilter
\* The filter is called on one (gap, safe_distance, buffer) with the flag set
\* and with the flag clear.
MaxSafe == 3
MaxBuffer == 2

\* No planning cycle of the state machine is running.
NoCycle ==
  /\ status = UnsetStatus
  /\ now = 0
  /\ reference_line_info = <<>>
  /\ offered = <<>>
  /\ status_before = UnsetStatus
  /\ FLAGS_reckless_change_lane = FALSE
  /\ FLAGS_change_lane_fail_freeze_time = 1
  /\ FLAGS_change_lane_success_freeze_time = 1
  /\ ret = FALSE
  /\ pc = "idle"

InitFilter ==
  /\ NoCycle
  /\ ego = NoEgo
  /\ obstacles = <<>>
  /\ calls = <<>>
  /\ filter \in [gap : (0 - MaxBuffer - 1)..(MaxSafe + MaxBuffer + 1),
                 safe : 0..MaxSafe,
                 buffer : (0 - MaxBuffer)..MaxBuffer,
                 called : {FALSE}, blocking : {FALSE}, clear : {FALSE}]

CallFilter ==
  /\ ~filter.called
  /\ filter' = [filter EXCEPT
       !.called = TRUE,
       !.blocking = HysteresisFilter(filter.gap, filter.safe, filter.buffer, TRUE),
       !.clear = HysteresisFilter(filter.gap, filter.safe, filter.buffer, FALSE)]
  /\ UNCHANGED <<applyVars, ego, obstacles, calls>>

NextFilter == CallFilter

SpecFilter == InitFilter /\ [][NextFilter]_vars

\* ------------------------------------------- scenes of several obstacles
\* Each cycle perception delivers up to MaxObstacles obstacles; obstacle k
\* keeps its identity and its blocking flag from cycle to cycle.  The ego is
\* at rest on [0 m, 5 m]; every obstacle is 2 m long, ahead of the ego, at
\* rest and without prediction, so that the safe distance ahead is 6 m.
MaxObstacles == 2
MaxCalls == 2

Rectangle(start_s, end_s, start_l, end_l) ==
  << [s |-> start_s, l |-> start_l], [s |-> end_s, l |-> start_l],
     [s |-> end_s, l |-> end_l], [s |-> start_s, l |-> end_l] >>

SceneEgo(change) ==
  [start_s |-> 0, end_s |-> HalfMetres(5), linear_velocity |-> 0,
   heading |-> 0, reverse |-> FALSE, change |-> change]

\* An obstacle whose rear is gap ahead of the front of the ego.
Ahead(gap, start_l, end_l, virtual, static) ==
  [virtual |-> virtual, static |-> static,
   points |-> Rectangle(HalfMetres(5) + gap, HalfMetres(5) + gap + HalfMetres(2),
                        start_l, end_l),
   speed |-> 0, has_trajectory |-> FALSE, theta |-> 0]

ObstacleKinds ==
  { Ahead(HalfMetres(3), -2, 2, FALSE, FALSE),    \* closer than the band
    Ahead(HalfMetres(6), -2, 2, FALSE, FALSE),    \* inside the band
    Ahead(HalfMetres(10), -2, 2, FALSE, FALSE),   \* beyond the band
    Ahead(HalfMetres(3), -2, 2, TRUE, FALSE),     \* virtual
    Ahead(HalfMetres(3), -2, 2, FALSE, TRUE),     \* static
    Ahead(HalfMetres(3), 6, 9, FALSE, FALSE) }    \* 3 m to the side

Perceptions == UNION {[1..n -> ObstacleKinds] : n \in 0..MaxObstacles}

\* The obstacle list of a cycle: obstacle k of the perception with identity k
\* and the flag that identity had at the end of the cycle before.
Perceived(kinds, old) ==
  [k \in 1..Len(kinds) |->
     [id |-> k, virtual |-> kinds[k].virtual, static |-> kinds[k].static,
      points |-> kinds[k].points, speed |-> kinds[k].speed,
      has_trajectory |-> kinds[k].has_trajectory, theta |-> kinds[k].theta,
      blocking |-> IF k <= Len(old) THEN old[k].blocking ELSE FALSE]]

Flags(obs) == [k \in 1..Len(obs) |-> obs[k].blocking]

InitClear ==
  /\ NoCycle
  /\ ego \in {SceneEgo(change) : change \in BOOLEAN}
  /\ obstacles \in {Perceived(kinds, <<>>) : kinds \in Perceptions}
  /\ calls = <<>>
  /\ filter = NoFilter

\* A new cycle: new candidate, new geometry, the flags persist.
Perceive(change, kinds) ==
  /\ ego' = SceneEgo(change)
  /\ obstacles' = Perceived(kinds, obstacles)
  /\ calls' = <<>>
  /\ UNCHANGED <<applyVars, filter>>

\* One call of IsClearToChangeLane on the candidate.
CallIsClear ==
  /\ Len(calls) < MaxCalls
  /\ LET r == IsClearToChangeLane(ego, obstacles)
     IN /\ obstacles' = r.obstacles
        /\ calls' = Append(calls, [before |-> Flags(obstacles),
                                   after |-> Flags(r.obstacles),
                                   ret |-> r.ret])
  /\ UNCHANGED <<applyVars, ego, filter>>

NextClear ==
  \/ \E change \in BOOLEAN, kinds \in Perceptions : Perceive(change, kinds)
  \/ CallIsClear

SpecClear == InitClear /\ [][NextClear]_vars

\* ------------------------------------------------ one moving obstacle
\* One obstacle, 2 m long and in the corridor, anywhere from beyond the
\* largest backward safe distance to beyond the largest forward one, at any
\* speed and heading of the sets below; it drifts along the lane between
\* the calls.
TopSpeed == 6
Speeds == {0, TopSpeed \div 2, TopSpeed}
Angles == {0, 1, 2, 4, 6, 7}
Headings == {0, 3}
ForwardReach ==
  ForwardSafeDistance(TopSpeed, TopSpeed, FALSE) + 2 * kDistanceBuffer
BackwardReach ==
  BackwardSafeDistance(0, TopSpeed, TRUE) + 2 * kDistanceBuffer
Positions ==
  (0 - BackwardReach - HalfMetres(2))..(HalfMetres(5) + ForwardReach)

DriftingEgos ==
  [start_s : {0}, end_s : {HalfMetres(5)},
   linear_velocity : {0, 0 - TopSpeed \div 2, TopSpeed},
   heading : Headings, reverse : BOOLEAN, change : {TRUE}]

Drifting(start_s, speed, has_trajectory, theta, blocking) ==
  [id |-> 1, virtual |-> FALSE, static |-> FALSE,
   points |-> Rectangle(start_s, start_s + HalfMetres(2), -2, 2),
   speed |-> speed, has_trajectory |-> has_trajectory, theta |-> theta,
   blocking |-> blocking]

InitDistance ==
  /\ NoCycle
  /\ ego \in DriftingEgos
  /\ obstacles \in
       {<<Drifting(x, v, FALSE, 0, FALSE)>> : x \in Positions, v \in Speeds}
       \cup {<<Drifting(x, v, TRUE, a, FALSE)>> :
                x \in Positions, v \in Speeds, a \in Angles}
  /\ calls = <<>>
  /\ filter = NoFilter

\* The obstacle moves by d along the lane before the next cycle.
Drift(d) ==
  /\ obstacles[1].points[1].s + d \in Positions
  /\ obstacles' = <<Drifting(obstacles[1].points[1].s + d, obstacles[1].speed,
                             obstacles[1].has_trajectory, obstacles[1].theta,
                             obstacles[1].blocking)>>
  /\ calls' = <<>>
  /\ UNCHANGED <<applyVars, ego, filter>>

NextDistance ==
  \/ CallIsClear
  \/ \E d \in {-1, 1} : Drift(d)

SpecDistance == InitDistance /\ [][NextDistance]_vars

\* ------------------------------------------------- vocabulary of the claims
Called == pc = "done"
NonReckless == Called /\ ~FLAGS_reckless_change_lane

Range(refs) == {refs[i] : i \in 1..Len(refs)}
ChangeOf(refs) == {c \in Range(refs) : c.change}
NonChangeOf(refs) == {c \in Range(refs) : ~c.change}
HasNonChange(refs) == NonChangeOf(refs) # {}
\* The list keeps the order in which its nodes were offered, without repeats.
InOfferedOrder(refs) ==
  \A i, j \in 1..Len(refs) : i < j => refs[i].n < refs[j].n
\* The node of a non-empty set of nodes that was offered first.
Earliest(S) == CHOOSE c \in S : \A d \in S : c.n <= d.n
\* The id of the current lane: the first non-change candidate.
CurrentId(refs) == Earliest(NonChangeOf(refs)).id

\* Every lane-change candidate is gone, the others remain in order.
Discarded ==
  /\ Range(reference_line_info) = NonChangeOf(offered)
  /\ InOfferedOrder(reference_line_info)
\* The first lane-change candidate (if any) is at the front, the others
\* follow in the order offered.
Promoted ==
  IF ChangeOf(offered) = {} THEN reference_line_info = offered
  ELSE /\ Len(reference_line_info) = Len(offered)
       /\ Head(reference_line_info) = Earliest(ChangeOf(offered))
       /\ Range(Tail(reference_line_info)) =
            Range(offered) \ {Earliest(ChangeOf(offered))}
       /\ InOfferedOrder(Tail(reference_line_info))
StatusUnchanged == status = status_before
Several == Len(offered) > 1 /\ HasNonChange(offered)
Elapsed == now - status_before.timestamp

\* C1 - cooldown blocks retry: a non-reckless Apply on FAILED with several
\* candidates (one of them non-change) inside the failure freeze time returns
\* success, removes every lane-change candidate and keeps the status.
C1_CooldownBlocksRetry ==
  (NonReckless /\ status_before.status = CHANGE_LANE_FAILED /\ Several
     /\ Elapsed < FLAGS_change_lane_fail_freeze_time)
  => (ret /\ Discarded /\ StatusUnchanged)

C1_Witness ==
  /\ NonReckless /\ status_before.status = CHANGE_LANE_FAILED /\ Several
  /\ Elapsed < FLAGS_change_lane_fail_freeze_time
  /\ Cardinality(ChangeOf(offered)) = 2
  /\ Len(reference_line_info) = 1 /\ ret

\* C2 (as claimed) - cooldown expiry: a non-reckless Apply on FAILED with
\* several candidates at or after the failure freeze time returns success,
\* sets IN_CHANGE_LANE with the current path id and moves the lane-change
\* candidate to the front.
C2_Original ==
  (NonReckless /\ status_before.status = CHANGE_LANE_FAILED /\ Several
     /\ Elapsed >= FLAGS_change_lane_fail_freeze_time)
  => (/\ ret
      /\ status.status = IN_CHANGE_LANE
      /\ status.path_id = CurrentId(offered)
      /\ Promoted)

\* C2 (amended) - cooldown expiry: a non-reckless Apply on FAILED with
\* several candidates at or after the failure freeze time returns success and
\* sets IN_CHANGE_LANE with the current path id, and leaves the candidate
\* list exactly as offered (the lane-change candidate is not moved).
C2_CooldownExpiryRetry ==
  (NonReckless /\ status_before.status = CHANGE_LANE_FAILED /\ Several
     /\ Elapsed >= FLAGS_change_lane_fail_freeze_time)
  => (/\ ret
      /\ status.status = IN_CHANGE_LANE
      /\ status.path_id = CurrentId(offered)
      /\ reference_line_info = offered)

C2_Witness ==
  /\ NonReckless /\ status_before.status = CHANGE_LANE_FAILED /\ Several
  /\ Elapsed >= FLAGS_change_lane_fail_freeze_time
  /\ ~offered[1].change /\ offered[2].change
  /\ status.status = IN_CHANGE_LANE /\ reference_line_info = offered

\* C3 - IN_CHANGE_LANE arbitration: with several candidates, (a) when the
\* persisted path id is the current one the first lane-change candidate goes
\* to the front and the status is kept; (b) otherwise every lane-change
\* candidate is removed and the status becomes SUCCESS(current id, now).
C3_InProgressArbitration ==
  (NonReckless /\ status_before.status = IN_CHANGE_LANE /\ Several)
  => /\ ret
     /\ status_before.path_id = CurrentId(offered)
          => (Promoted /\ StatusUnchanged)
     /\ status_before.path_id # CurrentId(offered)
          => (/\ Discarded
              /\ status.status = CHANGE_LANE_SUCCESS
              /\ status.path_id = CurrentId(offered)
              /\ status.timestamp = now)

C3_Witness ==
  /\ NonReckless /\ status_before.status = IN_CHANGE_LANE /\ Several
  /\ status_before.path_id # CurrentId(offered)
  /\ ChangeOf(offered) # {}
  /\ status.status = CHANGE_LANE_SUCCESS
  /\ status.timestamp > status_before.timestamp

\* C4 - SUCCESS arbitration: with several candidates, inside the success
\* freeze time every lane-change candidate is removed and the status kept;
\* otherwise the first lane-change candidate goes to the front and the status
\* becomes IN_CHANGE_LANE(current id, now).  Apply returns success in both.
C4_SuccessArbitration ==
  (NonReckless /\ status_before.status = CHANGE_LANE_SUCCESS /\ Several)
  => /\ ret
     /\ Elapsed < FLAGS_change_lane_success_freeze_time
          => (Discarded /\ StatusUnchanged)
     /\ Elapsed >= FLAGS_change_lane_success_freeze_time
          => (/\ Promoted
              /\ status.status = IN_CHANGE_LANE
              /\ status.path_id = CurrentId(offered)
              /\ status.timestamp = now)

C4_Witness ==
  /\ NonReckless /\ status_before.status = CHANGE_LANE_SUCCESS /\ Several
  /\ Elapsed >= FLAGS_change_lane_success_freeze_time
  /\ ~offered[1].change /\ ChangeOf(offered) # {}
  /\ status.status = IN_CHANGE_LANE
  /\ reference_line_info[1].change

\* C5 - bootstrap: a non-reckless Apply on UNSET with a non-empty list
\* returns success and sets SUCCESS with the id of the first non-change
\* candidate (the empty id when there is none), the list left as offered.
C5_Bootstrap ==
  (NonReckless /\ status_before.status = UNSET /\ Len(offered) > 0)
  => /\ ret
     /\ status.status = CHANGE_LANE_SUCCESS
     /\ HasNonChange(offered) => status.path_id = CurrentId(offered)
     /\ ~HasNonChange(offered) => status.path_id = EmptyId
     /\ reference_line_info = offered

C5_Witness ==
  /\ NonReckless /\ status_before.status = UNSET /\ Len(offered) = 3
  /\ offered[1].change /\ ~offered[2].change /\ ~offered[3].change
  /\ offered[2].id # offered[3].id
  /\ status.status = CHANGE_LANE_SUCCESS /\ status.path_id = offered[2].id

\* C6 - single candidate: a non-reckless Apply with exactly one candidate and
\* a set status returns success and keeps the list; SUCCESS and FAILED are
\* kept, IN_CHANGE_LANE becomes SUCCESS(id of the candidate, now).
C6_SingleCandidate ==
  (NonReckless /\ status_before.status # UNSET /\ Len(offered) = 1)
  => /\ ret
     /\ reference_line_info = offered
     /\ status_before.status \in {CHANGE_LANE_SUCCESS, CHANGE_LANE_FAILED}
          => StatusUnchanged
     /\ status_before.status = IN_CHANGE_LANE
          => (/\ status.status = CHANGE_LANE_SUCCESS
              /\ status.path_id = offered[1].id
              /\ status.timestamp = now)

C6_Witness ==
  /\ NonReckless /\ status_before.status = IN_CHANGE_LANE /\ Len(offered) = 1
  /\ status_before.path_id # offered[1].id
  /\ status_before.timestamp < now
  /\ status.status = CHANGE_LANE_SUCCESS /\ status.path_id = offered[1].id

\* C7 (as claimed) - no active lane: a non-reckless Apply with more than one
\* candidate, none of them non-change, fails whatever the persisted status.
C7_Original ==
  (NonReckless /\ Len(offered) > 1 /\ ~HasNonChange(offered)) => ~ret

\* C7 (amended) - no active lane: a non-reckless Apply with more than one
\* candidate, none of them non-change, fails whenever the persisted status is
\* set (SUCCESS, IN_CHANGE_LANE or FAILED); on UNSET it returns success.
C7_NoActiveLane ==
  (NonReckless /\ Len(offered) > 1 /\ ~HasNonChange(offered))
  => (ret <=> status_before.status = UNSET)

C7_Witness ==
  /\ NonReckless /\ Len(offered) > 1 /\ ~HasNonChange(offered)
  /\ status_before.status = CHANGE_LANE_FAILED
  /\ ~ret

\* C8 - empty input: Apply on an empty list fails and keeps the status,
\* reckless or not, whatever the status.
C8_EmptyInput ==
  (Called /\ Len(offered) = 0) => (~ret /\ StatusUnchanged)

C8_Witness ==
  /\ Called /\ Len(offered) = 0 /\ FLAGS_reckless_change_lane
  /\ status_before.status = UNSET /\ ~ret

\* C9 - reckless mode: a reckless Apply on a non-empty list returns success,
\* moves the first lane-change candidate (if any) to the front keeping the
\* order of the others, and keeps the status.
C9_Reckless ==
  (Called /\ FLAGS_reckless_change_lane /\ Len(offered) > 0)
  => (ret /\ Promoted /\ StatusUnchanged)

C9_Witness ==
  /\ Called /\ FLAGS_reckless_change_lane /\ Len(offered) = 3
  /\ ~offered[1].change /\ ~offered[2].change /\ offered[3].change
  /\ reference_line_info = <<offered[3], offered[1], offered[2]>>
  /\ status_before.status = UNSET /\ status.status = UNSET

\* C10 (as claimed) - after every non-reckless Apply the list holds zero or
\* one lane-change candidate.
C10_Original ==
  NonReckless => Cardinality(ChangeOf(reference_line_info)) <= 1

\* C10 (amended) - after every non-reckless Apply the list holds either no
\* lane-change candidate or exactly the lane-change candidates offered, each
\* once: zero or one only when at most one was offered.
C10_ChangeLaneCount ==
  NonReckless =>
    /\ ChangeOf(reference_line_info) \in {{}, ChangeOf(offered)}
    /\ \A i, j \in 1..Len(reference_line_info) :
         reference_line_info[i] = reference_line_info[j] => i = j

C10_Witness ==
  /\ NonReckless /\ Cardinality(ChangeOf(offered)) = 2 /\ HasNonChange(offered)
  /\ status_before.status = IN_CHANGE_LANE
  /\ ret /\ Cardinality(ChangeOf(reference_line_info)) = 2
  /\ reference_line_info # offered

\* C11 - freeze window: a non-reckless Apply entered with SUCCESS (resp.
\* FAILED) recorded at t leaves the phase SUCCESS (resp. FAILED) while
\* now - t is below the success (resp. failure) freeze time, whatever the
\* candidates offered.
C11_FreezeWindow ==
  NonReckless =>
    /\ (status_before.status = CHANGE_LANE_SUCCESS
          /\ Elapsed < FLAGS_change_lane_success_freeze_time)
       => status.status = CHANGE_LANE_SUCCESS
    /\ (status_before.status = CHANGE_LANE_FAILED
          /\ Elapsed < FLAGS_change_lane_fail_freeze_time)
       => status.status = CHANGE_LANE_FAILED

C11_Witness ==
  /\ NonReckless /\ status_before.status = CHANGE_LANE_FAILED
  /\ status_before.timestamp > 0
  /\ Elapsed > 0 /\ Elapsed < FLAGS_change_lane_fail_freeze_time
  /\ Several /\ ChangeOf(offered) # {}
  /\ status.status = CHANGE_LANE_FAILED

\* C15 - UnknownState is unreachable: the persisted phase is always one of
\* UNSET, SUCCESS, IN_CHANGE_LANE, FAILED; an Apply that fails does so on an
\* empty list or (non-reckless) on several candidates without a current
\* lane, never on the phase; and an Apply that writes the status writes
\* SUCCESS or IN_CHANGE_LANE.
C15_UnknownStateUnreachable ==
  /\ status.status \in {UNSET, CHANGE_LANE_SUCCESS, IN_CHANGE_LANE,
                        CHANGE_LANE_FAILED}
  /\ Called =>
       /\ ~ret => \/ Len(offered) = 0
                  \/ /\ ~FLAGS_reckless_change_lane
                     /\ Len(offered) > 1 /\ ~HasNonChange(offered)
       /\ status # status_before
            => status.status \in {CHANGE_LANE_SUCCESS, IN_CHANGE_LANE}

C15_Witness ==
  /\ NonReckless /\ ret
  /\ status_before.status = CHANGE_LANE_FAILED
  /\ status.status = IN_CHANGE_LANE
  /\ Len(offered) > 1

\* C16 - candidate frame: after every Apply the list holds only nodes that
\* were offered, none twice, every non-change node offered is still there,
\* and the non-change nodes are in the order offered.
C16_CandidateFrame ==
  Called =>
    /\ Range(reference_line_info) \subseteq Range(offered)
    /\ \A i, j \in 1..Len(reference_line_info) :
         reference_line_info[i].n = reference_line_info[j].n => i = j
    /\ NonChangeOf(offered) \subseteq Range(reference_line_info)
    /\ \A i, j \in 1..Len(reference_line_info) :
         (i < j /\ ~reference_line_info[i].change
                /\ ~reference_line_info[j].change)
         => reference_line_info[i].n < reference_line_info[j].n

C16_Witness ==
  /\ NonReckless /\ Len(offered) = 3
  /\ ~offered[1].change /\ offered[2].change /\ ~offered[3].change
  /\ reference_line_info = <<offered[1], offered[3]>>

\* C17 - failure leaves state unchanged: an Apply that returns false leaves
\* the persisted status and the candidate list as they were.
C17_FailureUnchanged ==
  (Called /\ ~ret) => (status = status_before /\ reference_line_info = offered)

C17_Witness ==
  /\ NonReckless /\ ~ret /\ Len(offered) = 2
  /\ status_before.status = IN_CHANGE_LANE
  /\ reference_line_info = offered /\ status = status_before

\* C18 - lane change eventually entered and then held: under the steady
\* offer of [a, b(change)] the status eventually is IN_CHANGE_LANE with path
\* id a; once it is, it stays so, and every Apply entered with it leaves the
\* lane-change candidate b at the front.
InChangeLaneOnA(st) == st.status = IN_CHANGE_LANE /\ st.path_id = "a"

C18_EnteredAndHeld ==
  /\ <>InChangeLaneOnA(status)
  /\ [][InChangeLaneOnA(status) => InChangeLaneOnA(status')]_vars
  /\ []((Called /\ InChangeLaneOnA(status_before))
          => (ret /\ InChangeLaneOnA(status)
                  /\ reference_line_info = <<SteadyOffered[2], SteadyOffered[1]>>))

C18_Witness ==
  /\ Called /\ InChangeLaneOnA(status_before) /\ InChangeLaneOnA(status)
  /\ status.timestamp > 0 /\ now > status.timestamp
  /\ offered = SteadyOffered
  /\ Head(reference_line_info).change

\* C13 (as claimed) - hysteresis band: for every gap, safe distance and
\* buffer the filter returns gap < safe + buffer with the flag set and
\* gap < safe - buffer with the flag clear, and the two results differ only
\* for a gap in [safe - buffer, safe + buffer).
InBand == /\ filter.safe - filter.buffer <= filter.gap
          /\ filter.gap < filter.safe + filter.buffer

C13_Original ==
  filter.called =>
    /\ filter.blocking <=> (filter.gap < filter.safe + filter.buffer)
    /\ filter.clear <=> (filter.gap < filter.safe - filter.buffer)
    /\ (filter.blocking # filter.clear) => InBand

\* C13 (amended) - hysteresis band: the filter returns gap < safe + buffer
\* with the flag set and gap < safe - buffer with the flag clear for every
\* gap, safe distance and buffer; for a buffer that is not negative the two
\* results differ only for a gap in [safe - buffer, safe + buffer).
C13_HysteresisBand ==
  filter.called =>
    /\ filter.blocking <=> (filter.gap < filter.safe + filter.buffer)
    /\ filter.clear <=> (filter.gap < filter.safe - filter.buffer)
    /\ filter.buffer >= 0 => ((filter.blocking # filter.clear) => InBand)

C13_Witness ==
  /\ filter.called /\ filter.buffer > 0
  /\ filter.gap = filter.safe
  /\ filter.blocking /\ ~filter.clear

\* ------------------------------------ vocabulary of the clearance claims
Obs == 1..Len(obstacles)
\* Obstacle k is not skipped: neither virtual nor static, and for a
\* lane-change candidate not entirely beyond 2.5 m to one side.
Evaluated(k) ==
  /\ ~obstacles[k].virtual
  /\ ~obstacles[k].static
  /\ ego.change =>
       /\ \E i \in 1..Len(obstacles[k].points) :
            obstacles[k].points[i].l >= -kLateralShift
       /\ \E i \in 1..Len(obstacles[k].points) :
            obstacles[k].points[i].l <= kLateralShift
\* Both gaps of obstacle k are judged unsafe with the flag it had before call c.
Unsafe(k, c) ==
  IsBlocking(ego, [obstacles[k] EXCEPT !.blocking = calls[c].before[k]])
Blockers(c) == {k \in Obs : Evaluated(k) /\ Unsafe(k, c)}
FirstBlocker(c) == CHOOSE k \in Blockers(c) : \A j \in Blockers(c) : k <= j

\* C12 - clearance result and short-circuit: a call returns false iff some
\* evaluated obstacle has both gaps judged unsafe with its flag from before
\* the call; then the first such obstacle is flagged and every evaluated
\* obstacle before it is unflagged; on true every evaluated obstacle is
\* unflagged.
C12_ClearanceResult ==
  \A c \in 1..Len(calls) :
    /\ ~calls[c].ret <=> Blockers(c) # {}
    /\ ~calls[c].ret =>
         /\ calls[c].after[FirstBlocker(c)]
         /\ \A k \in Obs : (k < FirstBlocker(c) /\ Evaluated(k))
                             => ~calls[c].after[k]
    /\ calls[c].ret => \A k \in Obs : Evaluated(k) => ~calls[c].after[k]

C12_Witness ==
  /\ Len(calls) = 1 /\ Len(obstacles) = 2
  /\ Evaluated(1) /\ Evaluated(2)
  /\ calls[1].before = <<TRUE, FALSE>>
  /\ ~calls[1].ret
  /\ calls[1].after = <<FALSE, TRUE>>

\* C19 - stable under unchanged inputs: a call that follows another on the
\* same candidate and geometry returns the same result and leaves every
\* flag as the call before left it.
C19_StableUnderRepeat ==
  \A c \in 2..Len(calls) :
    /\ calls[c].ret = calls[c-1].ret
    /\ calls[c].after = calls[c-1].after

C19_Witness ==
  /\ Len(calls) = 2 /\ Len(obstacles) = 2
  /\ calls[1].before = <<TRUE, TRUE>>
  /\ calls[1].after = <<FALSE, TRUE>>
  /\ Evaluated(1) /\ Evaluated(2)
  /\ ~calls[2].ret /\ calls[2].after = <<FALSE, TRUE>>

\* C20 - blocking-flag frame: a call leaves the flag of every obstacle that
\* is skipped, or that comes after the first blocking obstacle, as it was.
C20_FlagFrame ==
  \A c \in 1..Len(calls) : \A k \in Obs :
    (\/ ~Evaluated(k)
     \/ (~calls[c].ret /\ k > FirstBlocker(c)))
    => calls[c].after[k] = calls[c].before[k]

\* A flag set in an earlier cycle is still set after a call that returns true.
C20_Witness ==
  /\ Len(calls) = 1 /\ calls[1].ret
  /\ \E k \in Obs : ~Evaluated(k) /\ calls[1].before[k] /\ calls[1].after[k]
  /\ \E k \in Obs : Evaluated(k) /\ calls[1].before[k] /\ ~calls[1].after[k]

\* C14 - safety distances: with v the absolute ego velocity, an obstacle
\* without prediction, or heading less than a quarter turn off the direction
\* of travel, blocks iff its backward gap is below max(8, (speed - v) * 3) m
\* and its forward gap below max(6, (v - speed) * 3) m; any other obstacle
\* iff its backward gap is below 1 m and its forward gap below
\* max(50, (v + speed) * 5) m; each threshold is raised by 0.5 m when the
\* obstacle was blocking and lowered by 0.5 m when it was not.
LargerOf(x, y) == IF x >= y THEN x ELSE y
EgoSpeed == IF ego.linear_velocity >= 0 THEN ego.linear_velocity
            ELSE 0 - ego.linear_velocity
TravelDirection == ego.heading + (IF ego.reverse THEN 4 ELSE 0)
Opposite(o) ==
  /\ o.has_trajectory
  /\ ((o.theta - TravelDirection) % 8) \in 2..6
ForwardMetres(o) ==
  IF Opposite(o) THEN LargerOf(50, (EgoSpeed + o.speed) * 5)
  ELSE LargerOf(6, (EgoSpeed - o.speed) * 3)
BackwardMetres(o) ==
  IF Opposite(o) THEN 1 ELSE LargerOf(8, (o.speed - EgoSpeed) * 3)
ObstacleStartS(o) ==
  CHOOSE x \in {o.points[i].s : i \in 1..Len(o.points)} :
    \A i \in 1..Len(o.points) : x <= o.points[i].s
ObstacleEndS(o) ==
  CHOOSE x \in {o.points[i].s : i \in 1..Len(o.points)} :
    \A i \in 1..Len(o.points) : x >= o.points[i].s
\* Twice a gap in half metres against twice a threshold in metres, the
\* 0.5 m buffer counting 1.
Below(gap, metres, was_blocking) ==
  IF was_blocking THEN gap < 2 * metres + 1 ELSE gap < 2 * metres - 1

C14_SafetyDistances ==
  \A c \in 1..Len(calls) :
    LET o == obstacles[1]
        was == calls[c].before[1]
    IN /\ ~calls[c].ret <=>
            /\ Below(ego.start_s - ObstacleEndS(o), BackwardMetres(o), was)
            /\ Below(ObstacleStartS(o) - ego.end_s, ForwardMetres(o), was)
       /\ calls[c].after[1] = ~calls[c].ret

C14_Witness ==
  /\ Len(calls) = 1 /\ Len(obstacles) = 1
  /\ Opposite(obstacles[1])
  /\ EgoSpeed + obstacles[1].speed > 10
  /\ ObstacleStartS(obstacles[1]) - ego.end_s
       = 2 * ForwardMetres(obstacles[1])
  /\ calls[1].before[1] /\ ~calls[1].ret

====
